---- MODULE Spec2Model ----
(***************************************************************************)
(* Model of the Things -> Notion synchroniser (src/main.py).               *)
(*                                                                         *)
(* Representation of Python values                                         *)
(*   str            a sequence of tokens (each token a TLA+ string).  A    *)
(*                  date "2025-07-18" is the one-token string <<"D18">>,   *)
(*                  "2025-07-18T21:30" is <<"D18", "T", "21:30">>, the     *)
(*                  Things sentinel "None" is <<"None">>, "" is <<>>.      *)
(*                  A project name is a sequence of characters.           *)
(*   None (str)     the reserved value None                                *)
(*   id / None      a positive integer / NoId                              *)
(*   dict           a function (props payloads, caches) or, where the      *)
(*                  iteration order matters, a sequence of [k, v] entries  *)
(*   datetime       an integer number of seconds                           *)
(***************************************************************************)
EXTENDS Integers, Sequences, FiniteSets, TLC

VARIABLES
    things,          \* local source: what things.tasks(...) returns, in order
    dbMtime,         \* st_mtime of the Things database file (NoTime: unknown)
    now,             \* datetime.now(), in seconds
    cacheFile,       \* contents of .sync_cache.json
    lastSyncFile,    \* contents of .last_sync.json
    notionPages,     \* remote task database, in query order
    notionProjects,  \* remote project database, in query order
    pc,              \* position of the running sync: "idle", "projects",
                     \* "pages" (the two remote reads), "sync" (the loop
                     \* over tasks_to_sync) or "save"
    mode,            \* "optimized" or "legacy"
    cache,           \* the run's in-memory cache dict
    tasks_to_sync,   \* the run's list of tasks to reconcile
    idx,             \* index in tasks_to_sync of the next task
    heading_lookup,  \* the run's heading lookup
    project_id_map,  \* the run's project name -> id dict
    notion_uuid_map, \* the run's uuid -> page index
    start_cursor,    \* the cursor of the remote read under way
    results,         \* the records the remote read under way has collected
    calls,           \* history: remote write calls issued by the current run
    last,            \* history: the latest add_or_update_task_to_notion call
    hist,            \* history: facts about the runs so far
    other            \* the run state of a second sync process, while the
                     \* first one is scheduled

vars == <<things, dbMtime, now, cacheFile, lastSyncFile, notionPages,
          notionProjects, pc, mode, cache, tasks_to_sync, idx, heading_lookup,
          project_id_map, notion_uuid_map, start_cursor, results, calls, last,
          hist, other>>

(***************************************************************************)
(* Bounds of the model.                                                    *)
(***************************************************************************)
MaxRuns == 2        \* sync runs started in one behaviour
MaxEvents == 1      \* clock advances, local edits and calls from outside a
                    \* run in one behaviour
PageSize == 1       \* records in one page of a remote query

(***************************************************************************)
(* Program constants.                                                      *)
(***************************************************************************)
CooldownSeconds == 30
RelevantDays == 7
DaySeconds == 86400

None == <<"<None>">>
NoId == 0
NoTime == -1
NoIndex == -1

\* the outcome of a call that raises IndexError
IndexError == <<"<IndexError>">>

Truthy(s) == s # None /\ s # <<>>

Range(s) == {s[i] : i \in 1..Len(s)}

\* s.split(sep)[0]: the tokens before the first sep
Before(s, sep) ==
    IF sep \in Range(s)
    THEN SubSeq(s, 1, (CHOOSE i \in 1..Len(s) :
                          s[i] = sep /\ \A j \in 1..(i - 1) : s[j] # sep) - 1)
    ELSE s

\* str.lstrip() and str.rstrip(): the blanks at either end are dropped
RECURSIVE lstrip(_)
lstrip(s) == IF s # <<>> /\ Head(s) = " " THEN lstrip(Tail(s)) ELSE s

RECURSIVE rstrip(_)
rstrip(s) ==
    IF s # <<>> /\ s[Len(s)] = " " THEN rstrip(SubSeq(s, 1, Len(s) - 1)) ELSE s

strip(s) == rstrip(lstrip(s))

(***************************************************************************)
(* Dates.  Day n (days since the epoch of the model) is written DayTok(n). *)
(***************************************************************************)
MaxDay == 15        \* the calendar of the model: days 0..MaxDay
StartDay == 10      \* the day on which a behaviour starts
Days == 0..MaxDay
DayTok(n) == "D" \o ToString(n)
IsDayTok(tok) == \E n \in Days : DayTok(n) = tok
DayNum(tok) == CHOOSE n \in Days : DayTok(n) = tok
TimeToks == {"00:00", "21:30"}
TimeSeconds(tok) == IF tok = "00:00" THEN 0 ELSE 77400

DateOf(t) == t \div DaySeconds      \* datetime.date()
Today == DateOf(now)
TodayStr == <<DayTok(Today)>>       \* datetime.now().strftime('%Y-%m-%d')

\* parse_things_date: a datetime (seconds) or NoTime for Python None
parse_things_date(date_str) ==
    IF ~Truthy(date_str) \/ date_str = <<"None">> THEN NoTime
    ELSE IF "T" \in Range(date_str)
         THEN IF /\ Len(date_str) = 3
                 /\ IsDayTok(date_str[1])
                 /\ date_str[2] = "T"
                 /\ date_str[3] \in TimeToks
              THEN DayNum(date_str[1]) * DaySeconds + TimeSeconds(date_str[3])
              ELSE NoTime
         ELSE IF Len(date_str) = 1 /\ IsDayTok(date_str[1])
              THEN DayNum(date_str[1]) * DaySeconds
              ELSE NoTime

is_task_relevant(task) ==
    LET seven_days_ago == now - RelevantDays * DaySeconds
    IN  \E date_field \in {"start_date", "deadline"} :
            LET task_date == parse_things_date(task[date_field])
            IN  task_date # NoTime /\ task_date >= seven_days_ago

\* the first of start_date, deadline that is set and is not "None"
ActualDate(task) ==
    IF Truthy(task.start_date) /\ task.start_date # <<"None">>
    THEN task.start_date
    ELSE IF Truthy(task.deadline) /\ task.deadline # <<"None">>
         THEN task.deadline
         ELSE None

\* a normalizer that shifts every task that is not completed
DisplayDate_AnyOpenStatus(task, actual_date, task_date) ==
    IF ~Truthy(actual_date) THEN None
    ELSE IF task.status = "completed" THEN actual_date
    ELSE IF /\ task.today_index # NoIndex
            /\ task_date # NoTime
            /\ DateOf(task_date) < Today
         THEN TodayStr
         ELSE actual_date

\* get_task_display_date once actual_date is known
DisplayDate(task, actual_date, task_date) ==
    IF ~Truthy(actual_date) THEN None
    ELSE IF task.status = "completed" THEN actual_date
    ELSE IF /\ task.today_index # NoIndex
            /\ task.status = "incomplete"
            /\ task_date # NoTime
            /\ DateOf(task_date) < Today
         THEN TodayStr
         ELSE actual_date

get_task_display_date(task) ==
    DisplayDate(task, ActualDate(task), parse_things_date(ActualDate(task)))

\* date_string.split()[0]: the string is split at runs of blanks, the blanks
\* at its ends dropped; a string of blanks only has no first part
SplitFirst(date_string) ==
    IF lstrip(date_string) = <<>> THEN IndexError
    ELSE Before(lstrip(date_string), " ")

extract_date_part(date_string) ==
    IF ~Truthy(date_string) THEN None
    ELSE IF "T" \in Range(date_string) THEN Before(date_string, "T")
    ELSE IF " " \in Range(date_string) THEN SplitFirst(date_string)
    ELSE date_string

things_status_to_notion_status(things_status) ==
    IF things_status = "completed" THEN "Completed"
    ELSE IF things_status = "canceled" THEN "Canceled"
    ELSE IF things_status = "incomplete" THEN "Incomplete"
    ELSE "Incomplete"

(***************************************************************************)
(* Project names: str.lower() on sequences of characters.                  *)
(***************************************************************************)
LowerChar(c) == IF c = "G" THEN "g" ELSE IF c = "W" THEN "w" ELSE c

lower(s) == [i \in 1..Len(s) |-> LowerChar(s[i])]

(***************************************************************************)
(* An insertion-ordered dict: a sequence of entries [k |-> key, v |-> val].*)
(***************************************************************************)
DictHas(d, key) == \E i \in 1..Len(d) : d[i].k = key

DictSet(d, key, val) ==
    IF DictHas(d, key)
    THEN [i \in 1..Len(d) |-> IF d[i].k = key THEN [k |-> key, v |-> val] ELSE d[i]]
    ELSE Append(d, [k |-> key, v |-> val])

(***************************************************************************)
(* Local source helpers.                                                   *)
(***************************************************************************)
get_filtered_things_tasks == SelectSeq(things, is_task_relevant)

get_all_things_tasks == get_filtered_things_tasks

IsTodo(t) == t.type = "to-do"

get_things_todos(all_tasks) == SelectSeq(all_tasks, IsTodo)

\* the dict {heading uuid: {project, project_title}}; a later heading with the
\* same uuid overwrites an earlier one
build_heading_lookup(all_tasks) ==
    LET hs == {i \in 1..Len(all_tasks) : all_tasks[i].type = "heading"}
        lastOf(u) == CHOOSE i \in hs :
                        /\ all_tasks[i].uuid = u
                        /\ \A j \in hs : all_tasks[j].uuid = u => j <= i
    IN  [u \in {all_tasks[i].uuid : i \in hs} |->
            [project |-> all_tasks[lastOf(u)].project,
             project_title |-> all_tasks[lastOf(u)].project_title]]

get_task_project(task, lookup) ==
    IF Truthy(task.project) THEN task.project_title
    ELSE IF Truthy(task.heading) /\ task.heading \in DOMAIN lookup
         THEN lookup[task.heading].project_title
         ELSE None

(***************************************************************************)
(* notion.databases.query: one page of the records of a database, from     *)
(* cursor on (1: from the start), with has_more and next_cursor.           *)
(***************************************************************************)
databases_query(records, cursor) ==
    [results |-> SubSeq(records, cursor,
                        IF cursor + PageSize - 1 < Len(records)
                        THEN cursor + PageSize - 1 ELSE Len(records)),
     has_more |-> cursor + PageSize - 1 < Len(records),
     next_cursor |-> cursor + PageSize]

\* a query step that stops after the first page of results
FetchStep_FirstPage(records, cursor, collected) ==
    [results |-> collected \o databases_query(records, cursor).results,
     has_more |-> FALSE,
     start_cursor |-> databases_query(records, cursor).next_cursor]

\* one iteration of the loop "query, extend, stop when has_more is false" of
\* the two readers: one request to the remote
FetchStep(records, cursor, collected) ==
    [results |-> collected \o databases_query(records, cursor).results,
     has_more |-> databases_query(records, cursor).has_more,
     start_cursor |-> databases_query(records, cursor).next_cursor]

\* the whole loop, when the database does not change between its requests
RECURSIVE QueryAll(_, _, _)
QueryAll(records, cursor, collected) ==
    IF FetchStep(records, cursor, collected).has_more
    THEN QueryAll(records, FetchStep(records, cursor, collected).start_cursor,
                  FetchStep(records, cursor, collected).results)
    ELSE FetchStep(records, cursor, collected).results

(***************************************************************************)
(* Remote project database.  A project record is [id, name]; name is None  *)
(* when the record's title array is empty.                                 *)
(***************************************************************************)
RECURSIVE FillProjectMap(_, _, _)
FillProjectMap(items, i, project_map) ==
    IF i > Len(items) THEN project_map
    ELSE FillProjectMap(items, i + 1,
            IF items[i].name # None
            THEN DictSet(project_map, strip(items[i].name), items[i].id)
            ELSE project_map)

fetch_project_id_map(projects) ==
    FillProjectMap(QueryAll(projects, 1, <<>>), 1, <<>>)

\* a create that adds nothing when the database holds the name already
create_project_in_notion_Upsert(projects, project_name) ==
    IF \E k \in 1..Len(projects) :
           /\ projects[k].name # None
           /\ lower(strip(projects[k].name)) = lower(strip(project_name))
    THEN projects
    ELSE Append(projects, [id |-> Len(projects) + 1, name |-> project_name])

\* notion.pages.create on the project database: the database afterwards
create_project_in_notion(projects, project_name) ==
    Append(projects, [id |-> Len(projects) + 1, name |-> project_name])

NewProjectId(projects) == Len(projects) + 1

\* a match that trims but does not fold the case
ProjectHits_CaseSensitive(project_name, id_map) ==
    {i \in 1..Len(id_map) : strip(project_name) = strip(id_map[i].k)}

\* the entries of the dict whose name matches project_name
ProjectHits(project_name, id_map) ==
    {i \in 1..Len(id_map) :
        lower(strip(project_name)) = lower(strip(id_map[i].k))}

Min(S) == CHOOSE i \in S : \A j \in S : i <= j

\* [pid, map, create]: the id returned, the dict afterwards and whether a
\* project was created; new_id is the id the create call returns
ProjectIdGiven(project_name, id_map, new_id, hits) ==
    IF ~Truthy(project_name)
    THEN [pid |-> NoId, map |-> id_map, create |-> FALSE]
    ELSE IF hits # {}
    THEN [pid |-> id_map[Min(hits)].v, map |-> id_map, create |-> FALSE]
    ELSE [pid |-> new_id,
          map |-> DictSet(id_map, strip(project_name), new_id),
          create |-> TRUE]

get_or_create_project_id(project_name, id_map, new_id) ==
    ProjectIdGiven(project_name, id_map, new_id,
                   ProjectHits(project_name, id_map))

(***************************************************************************)
(* Remote task database.  A page is                                        *)
(*   [id, title, status, projects, date, uuid]                             *)
(* title: plain text of the first title item, None when the array is empty *)
(* status: the status name, NoStatus when the page has none                *)
(* projects: the relation, a sequence of project ids                       *)
(* date: the date's start, None when the page has no date                  *)
(* uuid: plain text of "Things UUID", None when its rich_text is empty     *)
(***************************************************************************)
NoStatus == "<None>"
NoPage == [id |-> NoId]

fetch_all_notion_pages(pages) == QueryAll(pages, 1, <<>>)

\* an index that also takes the pages without a Things UUID
build_notion_uuid_map_AnyUuid(pages) ==
    LET ps == 1..Len(pages)
        lastOf(u) == CHOOSE i \in ps :
                        /\ pages[i].uuid = u
                        /\ \A j \in ps : pages[j].uuid = u => j <= i
    IN  [u \in {pages[i].uuid : i \in ps} |-> pages[lastOf(u)]]

\* the dict {Things UUID: page}; a later page with the same uuid overwrites
build_notion_uuid_map(pages) ==
    LET ps == {i \in 1..Len(pages) : Truthy(pages[i].uuid)}
        lastOf(u) == CHOOSE i \in ps :
                        /\ pages[i].uuid = u
                        /\ \A j \in ps : pages[j].uuid = u => j <= i
    IN  [u \in {pages[i].uuid : i \in ps} |-> pages[lastOf(u)]]

MapGet(uuid_map, uuid) == IF uuid \in DOMAIN uuid_map THEN uuid_map[uuid] ELSE NoPage

\* the comparisons of properties_differ, on the values it extracts
Differ(task_title, notion_title, things_status, notion_status, project_id, notion_project_id, things_date_part, notion_date_part) ==
    IF task_title # notion_title THEN TRUE
    ELSE IF notion_status # things_status THEN TRUE
    ELSE IF /\ (project_id # NoId \/ notion_project_id # NoId)
            /\ project_id # notion_project_id THEN TRUE
    ELSE IF things_date_part = None /\ notion_date_part # None THEN TRUE
    ELSE IF /\ (Truthy(things_date_part) \/ Truthy(notion_date_part))
            /\ things_date_part # notion_date_part THEN TRUE
    ELSE FALSE

\* a comparison that leaves out the project relation
properties_differ_NoProject(task, notion_page, project_id, date_value) ==
    Differ(task.title,
           IF notion_page.title # None THEN notion_page.title ELSE <<>>,
           things_status_to_notion_status(task.status),
           notion_page.status,
           NoId,
           NoId,
           extract_date_part(date_value),
           extract_date_part(notion_page.date))

\* does properties_differ raise?  It does when the title, the status and the
\* project agree and one of the two dates has no first part
DifferRaises(task, notion_page, project_id, date_value) ==
    /\ ~Differ(task.title,
               IF notion_page.title # None THEN notion_page.title ELSE <<>>,
               things_status_to_notion_status(task.status),
               notion_page.status,
               project_id,
               IF notion_page.projects # <<>> THEN notion_page.projects[1] ELSE NoId,
               None, None)
    /\ IndexError \in {extract_date_part(date_value),
                       extract_date_part(notion_page.date)}

\* the value properties_differ returns, when it does not raise
properties_differ(task, notion_page, project_id, date_value) ==
    Differ(task.title,
           IF notion_page.title # None THEN notion_page.title ELSE <<>>,
           things_status_to_notion_status(task.status),
           notion_page.status,
           project_id,
           IF notion_page.projects # <<>> THEN notion_page.projects[1] ELSE NoId,
           extract_date_part(date_value),
           extract_date_part(notion_page.date))

\* the payload dict, a function on its keys
BaseProps(task) ==
    [key \in {"Name", "Status", "Things UUID"} |->
        IF key = "Name" THEN task.title
        ELSE IF key = "Status" THEN things_status_to_notion_status(task.status)
        ELSE task.uuid]

WithProject(props, project_id) ==
    IF project_id # NoId THEN ("Projects" :> <<project_id>>) @@ props ELSE props

\* a payload whose date check compares the whole strings
WithDate_WholeString(props, date_value, existing_page) ==
    IF Truthy(date_value)
    THEN IF existing_page # NoPage
         THEN IF /\ Truthy(existing_page.date)
                 /\ date_value = existing_page.date
              THEN props
              ELSE ("Date" :> date_value) @@ props
         ELSE ("Date" :> date_value) @@ props
    ELSE ("Date" :> None) @@ props

\* a payload that leaves the Date out when the task has no date
WithDate_NoClear(props, date_value, existing_page) ==
    IF Truthy(date_value)
    THEN IF existing_page # NoPage
         THEN IF /\ Truthy(existing_page.date)
                 /\ extract_date_part(date_value)
                        = extract_date_part(existing_page.date)
              THEN props
              ELSE ("Date" :> date_value) @@ props
         ELSE ("Date" :> date_value) @@ props
    ELSE props

WithDate(props, date_value, existing_page) ==
    IF Truthy(date_value)
    THEN IF existing_page # NoPage
         THEN IF /\ Truthy(existing_page.date)
                 /\ extract_date_part(date_value)
                        = extract_date_part(existing_page.date)
              THEN props
              ELSE ("Date" :> date_value) @@ props
         ELSE ("Date" :> date_value) @@ props
    ELSE ("Date" :> None) @@ props

\* does the date check of task_properties_dict raise?
DateCheckRaises(date_value, existing_page) ==
    /\ Truthy(date_value)
    /\ existing_page # NoPage
    /\ Truthy(existing_page.date)
    /\ IndexError \in {extract_date_part(date_value),
                       extract_date_part(existing_page.date)}

PropertiesGiven(task, existing_page, project_name, got, date_value) ==
    [props |-> WithDate(WithProject(BaseProps(task), got.pid), date_value,
                        existing_page),
     project_id |-> got.pid, date_value |-> date_value,
     map |-> got.map, create |-> got.create, project_name |-> project_name,
     raised |-> DateCheckRaises(date_value, existing_page)]

\* [props, project_id, date_value] and, from get_or_create_project_id,
\* [map, create]; raised: the call raises IndexError after the project was
\* resolved
task_properties_dict(task, lookup, id_map, new_id, existing_page) ==
    PropertiesGiven(task, existing_page, get_task_project(task, lookup),
                    get_or_create_project_id(get_task_project(task, lookup),
                                             id_map, new_id),
                    get_task_display_date(task))

\* a reconciliation that updates where it should create
ReconcileOp_UpdateOnly(task, existing_page, tp) ==
    IF tp.raised THEN "raise"
    ELSE IF existing_page # NoPage
    THEN IF DifferRaises(task, existing_page, tp.project_id, tp.date_value)
         THEN "raise"
         ELSE IF properties_differ(task, existing_page, tp.project_id, tp.date_value)
              THEN "update" ELSE "skip"
    ELSE "update"

ReconcileOp(task, existing_page, tp) ==
    IF tp.raised THEN "raise"
    ELSE IF existing_page # NoPage
    THEN IF DifferRaises(task, existing_page, tp.project_id, tp.date_value)
         THEN "raise"
         ELSE IF properties_differ(task, existing_page, tp.project_id, tp.date_value)
              THEN "update" ELSE "skip"
    ELSE "create"

ReconcileGiven(existing_page, tp, op) ==
    [op |-> op, page_id |-> existing_page.id, props |-> tp.props,
     result |-> (op \in {"update", "create"}), project_id |-> tp.project_id,
     date_value |-> tp.date_value, map |-> tp.map, create |-> tp.create,
     project_name |-> tp.project_name]

\* what one call does up to its remote write: op is "update", "create",
\* "skip" or "raise" (IndexError in a date comparison); result is the value
\* returned when the write succeeds
add_or_update_task_to_notion(task, lookup, id_map, new_id, existing_page) ==
    ReconcileGiven(existing_page,
        task_properties_dict(task, lookup, id_map, new_id, existing_page),
        ReconcileOp(task, existing_page,
            task_properties_dict(task, lookup, id_map, new_id, existing_page)))

\* notion.pages.update(page_id, properties): the properties named in the
\* payload are replaced, the others are kept
PageWith(page, props) ==
    [page EXCEPT
        !.title = IF "Name" \in DOMAIN props THEN props["Name"] ELSE @,
        !.status = IF "Status" \in DOMAIN props THEN props["Status"] ELSE @,
        !.uuid = IF "Things UUID" \in DOMAIN props THEN props["Things UUID"] ELSE @,
        !.projects = IF "Projects" \in DOMAIN props THEN props["Projects"] ELSE @,
        !.date = IF "Date" \in DOMAIN props THEN props["Date"] ELSE @]

pages_update(pages, page_id, props) ==
    [i \in 1..Len(pages) |->
        IF pages[i].id = page_id THEN PageWith(pages[i], props) ELSE pages[i]]

\* notion.pages.create(parent, properties) on the task database
pages_create(pages, props) ==
    Append(pages, PageWith([id |-> Len(pages) + 1, title |-> None,
                            status |-> NoStatus, projects |-> <<>>,
                            date |-> None, uuid |-> None], props))

(***************************************************************************)
(* Persisted files.  A file is [kind |-> "missing"], [kind |-> "corrupt"]   *)
(* (it cannot be read or parsed) or a parsed JSON object                   *)
(* [kind |-> "json", ...] with the keys it holds.  In .last_sync.json a    *)
(* key that is left out has the value NoTime.                              *)
(***************************************************************************)
NoFile == [kind |-> "missing"]

CorruptFile == [kind |-> "corrupt"]

EmptyDict == [u \in {} |-> 0]

\* json.load(f): the parsed object, whatever keys it holds
load_cache ==
    IF cacheFile.kind = "json"
    THEN [key \in DOMAIN cacheFile \ {"kind"} |-> cacheFile[key]]
    ELSE [tasks |-> EmptyDict, last_update |-> NoTime]

\* the file written by save_cache
save_cache(cache_data) ==
    [kind |-> "json", tasks |-> cache_data.tasks, last_update |-> now]

should_sync_based_on_focus(force, active) ==
    IF force THEN TRUE
    ELSE IF ~active THEN FALSE
    ELSE IF /\ lastSyncFile.kind = "json"
            /\ lastSyncFile.last_sync # NoTime
            /\ now - lastSyncFile.last_sync < CooldownSeconds
         THEN FALSE
         ELSE TRUE

get_things_db_modified_time == dbMtime

\* a comparison that takes an equal modification time for a change
has_things_data_changed_EqualIsChanged ==
    LET current_mod_time == get_things_db_modified_time
    IN  IF current_mod_time = NoTime THEN TRUE
        ELSE IF /\ lastSyncFile.kind = "json"
                /\ lastSyncFile.things_db_mod_time # NoTime
                /\ current_mod_time < lastSyncFile.things_db_mod_time
             THEN FALSE
             ELSE TRUE

has_things_data_changed ==
    LET current_mod_time == get_things_db_modified_time
    IN  IF current_mod_time = NoTime THEN TRUE
        ELSE IF /\ lastSyncFile.kind = "json"
                /\ lastSyncFile.things_db_mod_time # NoTime
                /\ current_mod_time <= lastSyncFile.things_db_mod_time
             THEN FALSE
             ELSE TRUE

\* the file written by save_last_sync_time: the key things_db_mod_time is
\* left out
save_last_sync_time ==
    [kind |-> "json", last_sync |-> now, things_db_mod_time |-> NoTime]

\* the file written by save_things_db_state; things_db_mod_time is NoTime
\* when the key is left out
save_things_db_state ==
    [kind |-> "json", last_sync |-> now,
     things_db_mod_time |-> get_things_db_modified_time]

\* the cache check of sync_things_to_notion: is the task skipped?
CacheHit(cache_data, task) ==
    /\ task.uuid \in DOMAIN cache_data.tasks
    /\ "modification_date" \in DOMAIN cache_data.tasks[task.uuid]
    /\ cache_data.tasks[task.uuid].modification_date = task.modification_date

CachePut(cache_data, task) ==
    [cache_data EXCEPT !.tasks =
        (task.uuid :> [modification_date |-> task.modification_date,
                       last_synced |-> now]) @@ @]

\* the loop over tasks: [tasks_to_sync, cache] after tasks[i..]
RECURSIVE SelectChanged(_, _, _, _)
SelectChanged(tasks, i, cache_data, selected) ==
    IF i > Len(tasks) THEN [tasks_to_sync |-> selected, cache |-> cache_data]
    ELSE IF CacheHit(cache_data, tasks[i])
         THEN SelectChanged(tasks, i + 1, cache_data, selected)
         ELSE SelectChanged(tasks, i + 1, CachePut(cache_data, tasks[i]),
                            Append(selected, tasks[i]))

\* the loop over a loaded cache: cache["tasks"] raises KeyError at the first
\* task when the loaded object has no "tasks" key
SelectOrRaise(tasks, loaded) ==
    IF "tasks" \in DOMAIN loaded
    THEN [raised |-> FALSE,
          tasks_to_sync |-> SelectChanged(tasks, 1, loaded, <<>>).tasks_to_sync,
          cache |-> SelectChanged(tasks, 1, loaded, <<>>).cache]
    ELSE [raised |-> tasks # <<>>, tasks_to_sync |-> <<>>, cache |-> loaded]

(***************************************************************************)
(* History records.                                                        *)
(***************************************************************************)
NoFail == [uuid |-> None]

NoCall == [task |-> [uuid |-> None], page |-> NoPage, run |-> 0]

Hist0 ==
    [runs |-> 0,           \* runs started
     events |-> 0,         \* clock advances, local edits, outside calls
     outcomes |-> <<>>,    \* how each finished run ended
     force |-> FALSE,      \* the latest run's force flag
     gate |-> FALSE,       \* did the latest run pass the gate?
     cold |-> FALSE,       \* did the latest run load an empty cache?
     fileAtStart |-> NoFile, \* the cache file the latest run loaded
     source |-> <<>>,      \* what the local source returned to the latest run
     candidates |-> <<>>,  \* the to-dos the latest run considered
     startedAt |-> NoTime, \* the clock when the latest run started
     attempted |-> {},     \* uuids handed to add_or_update_task_to_notion
     created |-> {},       \* uuids of the pages created so far
     createdBefore |-> {}, \* the same when the latest run started
     failed |-> NoFail,    \* the task whose remote write failed in the latest run
     prevFailed |-> NoFail] \* the same for the run before it

Call(db, op, page_id, props, uuid, ok) ==
    [db |-> db, op |-> op, page_id |-> page_id, props |-> props,
     uuid |-> uuid, ok |-> ok]

(***************************************************************************)
(* The start of a run, shared by the two entry points: the run either ends *)
(* at once (outcome is how) or goes on to its two remote reads.            *)
(***************************************************************************)
RunHist(force, gate, cold, tasks) ==
    [hist EXCEPT !.runs = @ + 1, !.force = force, !.gate = gate, !.cold = cold,
                 !.fileAtStart = cacheFile, !.source = things,
                 !.candidates = tasks, !.attempted = {}, !.startedAt = now,
                 !.createdBefore = hist.created,
                 !.failed = NoFail, !.prevFailed = hist.failed]

BeginRun(m, h, outcome, selected, all_tasks) ==
    /\ mode' = m
    /\ calls' = <<>>
    /\ tasks_to_sync' = selected
    /\ idx' = 1
    /\ project_id_map' = <<>>
    /\ notion_uuid_map' = EmptyDict
    /\ start_cursor' = 1
    /\ results' = <<>>
    /\ IF outcome = "running"
       THEN /\ pc' = "projects"
            /\ heading_lookup' = build_heading_lookup(all_tasks)
            /\ hist' = h
       ELSE /\ pc' = "idle"
            /\ heading_lookup' = EmptyDict
            /\ hist' = [h EXCEPT !.outcomes = Append(@, outcome)]

(***************************************************************************)
(* sync_things_to_notion, up to its first remote read: the gate, the       *)
(* cache, the local source and the selection of the changed tasks.         *)
(*   force    the --force flag                                             *)
(*   active   what is_notion_active() returns                              *)
(***************************************************************************)
Gate(force, active) ==
    /\ should_sync_based_on_focus(force, active)
    /\ (force \/ has_things_data_changed)

OptimizedOutcome(gate, raised, selected) ==
    IF ~gate THEN "gated"
    ELSE IF raised THEN "raised"
    ELSE IF selected = <<>> THEN "nochanges"
    ELSE "running"

OptimizedSelected(force, gate, loaded, tasks, sel) ==
    /\ cache' = IF gate THEN sel.cache ELSE loaded
    /\ BeginRun("optimized",
                RunHist(force, gate,
                        "tasks" \in DOMAIN loaded /\ loaded.tasks = EmptyDict,
                        IF gate THEN tasks ELSE <<>>),
                OptimizedOutcome(gate, sel.raised, sel.tasks_to_sync),
                IF gate THEN sel.tasks_to_sync ELSE <<>>,
                get_all_things_tasks)

OptimizedGiven(force, gate, loaded, tasks) ==
    OptimizedSelected(force, gate, loaded, tasks, SelectOrRaise(tasks, loaded))

StartOptimized(force, active) ==
    /\ pc = "idle"
    /\ hist.runs < MaxRuns
    /\ OptimizedGiven(force, Gate(force, active), load_cache,
                      get_things_todos(get_all_things_tasks))
    /\ UNCHANGED <<things, dbMtime, now, cacheFile, lastSyncFile, notionPages,
                   notionProjects, last, other>>

(***************************************************************************)
(* sync_things_to_notion_legacy, up to its first remote read.              *)
(***************************************************************************)
LegacyGiven(all_tasks, tasks) ==
    BeginRun("legacy", RunHist(FALSE, TRUE, FALSE, tasks), "running", tasks,
             all_tasks)

StartLegacy ==
    /\ pc = "idle"
    /\ hist.runs < MaxRuns
    /\ LegacyGiven(things, get_things_todos(things))
    /\ UNCHANGED <<things, dbMtime, now, cacheFile, lastSyncFile, notionPages,
                   notionProjects, cache, last, other>>

(***************************************************************************)
(* The two remote reads of a run, one request (one page of results) in a   *)
(* step: fetch_project_id_map, then build_notion_uuid_map.                 *)
(*   queryOK  whether the request succeeds; an error is not caught and     *)
(*            ends the run                                                 *)
(***************************************************************************)
ReadFailed ==
    /\ pc' = "idle"
    /\ start_cursor' = 1
    /\ results' = <<>>
    /\ heading_lookup' = EmptyDict
    /\ project_id_map' = <<>>
    /\ notion_uuid_map' = EmptyDict
    /\ hist' = [hist EXCEPT !.outcomes = Append(@, "aborted")]

ProjectsRead(step) ==
    IF step.has_more
    THEN /\ results' = step.results
         /\ start_cursor' = step.start_cursor
         /\ UNCHANGED <<pc, heading_lookup, project_id_map, notion_uuid_map, hist>>
    ELSE /\ project_id_map' = FillProjectMap(step.results, 1, <<>>)
         /\ pc' = "pages"
         /\ results' = <<>>
         /\ start_cursor' = 1
         /\ UNCHANGED <<heading_lookup, notion_uuid_map, hist>>

FetchProjects(queryOK) ==
    /\ pc = "projects"
    /\ IF queryOK
       THEN ProjectsRead(FetchStep(notionProjects, start_cursor, results))
       ELSE ReadFailed
    /\ UNCHANGED <<things, dbMtime, now, cacheFile, lastSyncFile, notionPages,
                   notionProjects, mode, cache, tasks_to_sync, idx, calls, last,
                   other>>

\* the loop over tasks_to_sync starts, or has nothing to do
PagesRead(step) ==
    IF step.has_more
    THEN /\ results' = step.results
         /\ start_cursor' = step.start_cursor
         /\ UNCHANGED <<pc, heading_lookup, project_id_map, notion_uuid_map, hist>>
    ELSE /\ notion_uuid_map' = build_notion_uuid_map(step.results)
         /\ results' = <<>>
         /\ start_cursor' = 1
         /\ pc' = IF tasks_to_sync = <<>> THEN "idle" ELSE "sync"
         /\ hist' = IF tasks_to_sync = <<>>
                    THEN [hist EXCEPT !.outcomes = Append(@, "completed")]
                    ELSE hist
         /\ UNCHANGED <<heading_lookup, project_id_map>>

FetchPages(queryOK) ==
    /\ pc = "pages"
    /\ IF queryOK
       THEN PagesRead(FetchStep(notionPages, start_cursor, results))
       ELSE ReadFailed
    /\ UNCHANGED <<things, dbMtime, now, cacheFile, lastSyncFile, notionPages,
                   notionProjects, mode, cache, tasks_to_sync, idx, calls, last,
                   other>>

(***************************************************************************)
(* The loop over tasks_to_sync, one remote write in a step: the create of  *)
(* the task's project, when it has one that the run's dict does not hold,  *)
(* and then the create or update of its page (or the decision to skip it). *)
(*   outcome  "ok", or which remote write raises: "project_error" (the     *)
(*            project create) or "task_error" (the page create or update). *)
(*            A raised error is not caught: it ends the run.               *)
(***************************************************************************)
ProjectCall(task, r, ok) ==
    IF r.create
    THEN <<Call("projects", "create", NoId,
                [key \in {"Name"} |-> r.project_name], task.uuid, ok)>>
    ELSE <<>>

TaskCall(task, r, ok) ==
    IF r.op \in {"update", "create"}
    THEN <<Call("tasks", r.op, r.page_id, r.props, task.uuid, ok)>>
    ELSE <<>>

Failure(task, kind) ==
    [uuid |-> task.uuid, modification_date |-> task.modification_date,
     at |-> idx, mode |-> mode, kind |-> kind]

Attempted(task) == [hist EXCEPT !.attempted = @ \cup {task.uuid}]

Done(task, r) ==
    [hist EXCEPT !.attempted = @ \cup {task.uuid},
                 !.created = IF r.op = "create" THEN @ \cup {task.uuid} ELSE @]

ProjectsAfter(r) ==
    IF r.create THEN create_project_in_notion(notionProjects, r.project_name)
    ELSE notionProjects

PagesAfter(r) ==
    IF r.op = "update" THEN pages_update(notionPages, r.page_id, r.props)
    ELSE IF r.op = "create" THEN pages_create(notionPages, r.props)
    ELSE notionPages

\* did the run create a project for the task, in an earlier step?
CreatedFor(task) ==
    \E i \in 1..Len(calls) :
        calls[i].db = "projects" /\ calls[i].uuid = task.uuid /\ calls[i].ok

\* the record of the call: create tells whether it created a project
LastCall(task, page, r) ==
    [task |-> task, page |-> page, r |-> [r EXCEPT !.create = CreatedFor(task)],
     run |-> hist.runs]

\* the project create raises
ProjectError(task, r) ==
    /\ calls' = calls \o ProjectCall(task, r, FALSE)
    /\ pc' = "idle"
    /\ hist' = [Attempted(task) EXCEPT !.failed = Failure(task, "project"),
                                       !.outcomes = Append(@, "aborted")]
    /\ UNCHANGED <<notionPages, notionProjects, project_id_map, idx,
                   cacheFile, lastSyncFile, last>>

\* the project create returns: the run goes on to the task's page
ProjectCreated(task, r) ==
    /\ calls' = calls \o ProjectCall(task, r, TRUE)
    /\ notionProjects' = ProjectsAfter(r)
    /\ project_id_map' = r.map
    /\ UNCHANGED <<notionPages, idx, pc, cacheFile, lastSyncFile, last, hist>>

\* a date comparison raises IndexError, before any write on the page
CallRaised(task, page, r) ==
    /\ last' = LastCall(task, page, r)
    /\ pc' = "idle"
    /\ hist' = [Attempted(task) EXCEPT !.outcomes = Append(@, "raised")]
    /\ UNCHANGED <<notionPages, notionProjects, project_id_map, idx, calls,
                   cacheFile, lastSyncFile>>

\* a failed write that still saves the cache
TaskError_SavesCache(task, page, r) ==
    /\ r.op # "skip"
    /\ calls' = calls \o TaskCall(task, r, FALSE)
    /\ last' = LastCall(task, page, r)
    /\ pc' = "idle"
    /\ hist' = [Attempted(task) EXCEPT !.failed = Failure(task, "task"),
                                       !.outcomes = Append(@, "aborted")]
    /\ cacheFile' = IF mode = "optimized" THEN save_cache(cache) ELSE cacheFile
    /\ UNCHANGED <<notionPages, notionProjects, project_id_map, idx,
                   lastSyncFile>>

\* the page create or update raises
TaskError(task, page, r) ==
    /\ r.op # "skip"
    /\ calls' = calls \o TaskCall(task, r, FALSE)
    /\ last' = LastCall(task, page, r)
    /\ pc' = "idle"
    /\ hist' = [Attempted(task) EXCEPT !.failed = Failure(task, "task"),
                                       !.outcomes = Append(@, "aborted")]
    /\ UNCHANGED <<notionPages, notionProjects, project_id_map, idx, cacheFile,
                   lastSyncFile>>

\* the page is written or skipped; isLast: the loop ends, and the legacy run
\* with it
TaskDone(task, page, r, isLast) ==
    /\ calls' = calls \o TaskCall(task, r, TRUE)
    /\ notionPages' = PagesAfter(r)
    /\ last' = LastCall(task, page, r)
    /\ idx' = idx + 1
    /\ pc' = IF ~isLast THEN "sync"
             ELSE IF mode = "optimized" THEN "save" ELSE "idle"
    /\ hist' = IF isLast /\ mode = "legacy"
               THEN [Done(task, r) EXCEPT !.outcomes = Append(@, "completed")]
               ELSE Done(task, r)
    /\ UNCHANGED <<notionProjects, project_id_map, cacheFile, lastSyncFile>>

SyncGiven(outcome, task, page, r) ==
    IF r.create
    THEN IF outcome = "project_error" THEN ProjectError(task, r)
         ELSE outcome = "ok" /\ ProjectCreated(task, r)
    ELSE IF r.op = "raise" THEN outcome = "ok" /\ CallRaised(task, page, r)
    ELSE IF outcome = "task_error" THEN TaskError(task, page, r)
    ELSE outcome = "ok" /\ TaskDone(task, page, r, idx = Len(tasks_to_sync))

SyncTask(outcome) ==
    /\ pc = "sync"
    /\ SyncGiven(outcome, tasks_to_sync[idx],
                 MapGet(notion_uuid_map, tasks_to_sync[idx].uuid),
                 add_or_update_task_to_notion(
                     tasks_to_sync[idx], heading_lookup, project_id_map,
                     NewProjectId(notionProjects),
                     MapGet(notion_uuid_map, tasks_to_sync[idx].uuid)))
    /\ UNCHANGED <<things, dbMtime, now, mode, cache, tasks_to_sync,
                   heading_lookup, notion_uuid_map, start_cursor, results,
                   other>>

\* the end of an optimized run: the cache and the gate state are saved, with
\* the clock and the modification time of the source as they are now
SaveState ==
    /\ pc = "save"
    /\ cacheFile' = save_cache(cache)
    /\ lastSyncFile' = save_things_db_state
    /\ pc' = "idle"
    /\ hist' = [hist EXCEPT !.outcomes = Append(@, "completed")]
    /\ UNCHANGED <<things, dbMtime, now, notionPages, notionProjects, mode,
                   cache, tasks_to_sync, idx, heading_lookup, project_id_map,
                   notion_uuid_map, start_cursor, results, calls, last, other>>

(***************************************************************************)
(* The environment: time passes, the user edits a task in Things -- at any *)
(* moment, also while a run waits for the remote.                          *)
(***************************************************************************)
Tick ==
    /\ hist.events < MaxEvents
    /\ now' = now + CooldownSeconds
    /\ hist' = [hist EXCEPT !.events = @ + 1]
    /\ UNCHANGED <<things, dbMtime, cacheFile, lastSyncFile, notionPages,
                   notionProjects, pc, mode, cache, tasks_to_sync, idx,
                   heading_lookup, project_id_map, notion_uuid_map,
                   start_cursor, results, calls, last, other>>

\* the user sets or removes the start date of a to-do
LocalEdit(i, start_date) ==
    /\ hist.events < MaxEvents
    /\ things[i].type = "to-do"
    /\ things[i].start_date # start_date
    /\ things' = [things EXCEPT ![i].start_date = start_date,
                                ![i].modification_date = @ + 1]
    /\ dbMtime' = now
    /\ hist' = [hist EXCEPT !.events = @ + 1]
    /\ UNCHANGED <<now, cacheFile, lastSyncFile, notionPages, notionProjects, pc,
                   mode, cache, tasks_to_sync, idx, heading_lookup,
                   project_id_map, notion_uuid_map, start_cursor, results,
                   calls, last, other>>

\* save_last_sync_time(), a public function that no run calls: a caller of
\* the module rewrites the last-sync file, at any moment
SaveLastSyncTime ==
    /\ hist.events < MaxEvents
    /\ lastSyncFile' = save_last_sync_time
    /\ hist' = [hist EXCEPT !.events = @ + 1]
    /\ UNCHANGED <<things, dbMtime, now, cacheFile, notionPages, notionProjects,
                   pc, mode, cache, tasks_to_sync, idx, heading_lookup,
                   project_id_map, notion_uuid_map, start_cursor, results,
                   calls, last, other>>

\* --clear-cache: the cache file is removed before the run
ClearCache ==
    /\ pc = "idle"
    /\ cacheFile # NoFile
    /\ cacheFile' = NoFile
    /\ UNCHANGED <<things, dbMtime, now, lastSyncFile, notionPages,
                   notionProjects, pc, mode, cache, tasks_to_sync, idx,
                   heading_lookup, project_id_map, notion_uuid_map,
                   start_cursor, results, calls, last, hist, other>>

\* Two sync processes (two invocations of the script) overlap: the scheduler
\* suspends the one that runs and resumes the other.  Each has its own run
\* state; the files, the local source and the remote are shared.
Switch ==
    /\ pc' = other.pc
    /\ mode' = other.mode
    /\ cache' = other.cache
    /\ tasks_to_sync' = other.tasks_to_sync
    /\ idx' = other.idx
    /\ heading_lookup' = other.heading_lookup
    /\ project_id_map' = other.project_id_map
    /\ notion_uuid_map' = other.notion_uuid_map
    /\ start_cursor' = other.start_cursor
    /\ results' = other.results
    /\ calls' = other.calls
    /\ other' = [pc |-> pc, mode |-> mode, cache |-> cache,
                 tasks_to_sync |-> tasks_to_sync, idx |-> idx,
                 heading_lookup |-> heading_lookup,
                 project_id_map |-> project_id_map,
                 notion_uuid_map |-> notion_uuid_map,
                 start_cursor |-> start_cursor, results |-> results,
                 calls |-> calls]
    /\ UNCHANGED <<things, dbMtime, now, cacheFile, lastSyncFile, notionPages,
                   notionProjects, last, hist>>

(***************************************************************************)
(* Initial states.                                                         *)
(***************************************************************************)
Task(type, uuid, title, status, start, deadline, project, ptitle, heading, today) ==
    [type |-> type, uuid |-> uuid, title |-> title, status |-> status,
     start_date |-> start, deadline |-> deadline, project |-> project,
     project_title |-> ptitle, heading |-> heading,
     today_index |-> today, modification_date |-> 1]

Page(id, title, status, projects, date, uuid) ==
    [id |-> id, title |-> title, status |-> status, projects |-> projects,
     date |-> date, uuid |-> uuid]

Now0 == StartDay * DaySeconds + 3600
Day(k) == <<DayTok(StartDay + k)>>           \* the date k days from the first day
DayTime(k) == <<DayTok(StartDay + k), "T", "21:30">>
DaySpaceTime(k) == <<DayTok(StartDay + k), " ", "21:30">>  \* "2025-07-18 21:30"

U1 == <<"u1">>
U2 == <<"u2">>
H1 == <<"h1">>
Work == <<"W", "k">>

TheHeading == Task("heading", H1, <<"h">>, "incomplete", None, None,
                   <<"p1">>, Work, None, NoIndex)

\* A to-do and a to-do under a heading of project Work, the second overdue
\* and in the Today list.
RunThings ==
    {<<Task("to-do", U1, <<"a">>, "incomplete", s, None, None, None, None, NoIndex),
       Task("to-do", U2, <<"b">>, "incomplete", Day(-1), None, None, None, H1, 0),
       TheHeading>> :
        s \in {None, Day(0), Day(-8)}}

RunCacheFiles ==
    {NoFile,
     [kind |-> "json", last_update |-> Now0 - 100,
      tasks |-> (U1 :> [modification_date |-> 1, last_synced |-> Now0 - 100])]}

\* the gate's inputs [dbMtime, lastSyncFile]: a first run with the database
\* file not found, and a run ten seconds after a sync, the database changed
RunGates ==
    {[dbMtime |-> NoTime, lastSyncFile |-> NoFile],
     [dbMtime |-> Now0 - 100,
      lastSyncFile |-> [kind |-> "json", last_sync |-> Now0 - 10,
                        things_db_mod_time |-> Now0 - 200]]}

\* a page made by hand (no Things UUID) and the page of an earlier sync of U1
RunPages ==
    {<<>>,
     <<Page(1, <<"x">>, NoStatus, <<>>, None, None),
       Page(2, <<"a">>, "Incomplete", <<>>, DayTime(0), U1)>>}

RunProjects == {<<>>, <<[id |-> 1, name |-> <<" ", "w", "k">>]>>}

\* the remote before the first sync (both databases empty) and after one
RunRemotes ==
    {r \in [pages : RunPages, projects : RunProjects] :
        (r.pages = <<>>) <=> (r.projects = <<>>)}

\* the run state of a process that has not run yet
Proc0 ==
    [pc |-> "idle", mode |-> "legacy",
     cache |-> [tasks |-> EmptyDict, last_update |-> NoTime],
     tasks_to_sync |-> <<>>, idx |-> 1, heading_lookup |-> EmptyDict,
     project_id_map |-> <<>>, notion_uuid_map |-> EmptyDict,
     start_cursor |-> 1, results |-> <<>>, calls |-> <<>>]

InitRunState ==
    /\ pc = "idle"
    /\ mode = "legacy"
    /\ cache = [tasks |-> EmptyDict, last_update |-> NoTime]
    /\ tasks_to_sync = <<>>
    /\ idx = 1
    /\ heading_lookup = EmptyDict
    /\ project_id_map = <<>>
    /\ notion_uuid_map = EmptyDict
    /\ start_cursor = 1
    /\ results = <<>>
    /\ calls = <<>>
    /\ last = NoCall
    /\ hist = Hist0
    /\ other = Proc0

Init ==
    /\ things \in RunThings
    /\ \E g \in RunGates : dbMtime = g.dbMtime /\ lastSyncFile = g.lastSyncFile
    /\ now = Now0
    /\ cacheFile \in RunCacheFiles
    /\ \E r \in RunRemotes : notionPages = r.pages /\ notionProjects = r.projects
    /\ InitRunState

Next ==
    \/ \E force \in BOOLEAN, active \in BOOLEAN : StartOptimized(force, active)
    \/ StartLegacy
    \/ \E queryOK \in BOOLEAN : FetchProjects(queryOK)
    \/ \E queryOK \in BOOLEAN : FetchPages(queryOK)
    \/ \E outcome \in {"ok", "project_error", "task_error"} : SyncTask(outcome)
    \/ SaveState
    \/ Tick
    \/ \E i \in 1..Len(things), d \in {None, Day(0)} : LocalEdit(i, d)
    \/ SaveLastSyncTime

Spec == Init /\ [][Next]_vars

(***************************************************************************)
(* Reconciliation of one to-do against one remote page, over every         *)
(* combination of the fields the reconciliation reads: legacy runs, which  *)
(* reconcile every to-do of the source.                                    *)
(***************************************************************************)
ReconcileStarts ==
    {None, <<"None">>, Day(-1), Day(0), Day(1), DayTime(-1), DaySpaceTime(0),
     <<"xx">>}

ReconcileThings ==
    {<<Task("to-do", U1, <<"a">>, status, start_date, deadline, pr[1], pr[2],
            pr[3], today_index),
       TheHeading>> :
        status \in {"incomplete", "completed", "canceled"},
        start_date \in ReconcileStarts,
        deadline \in {None, Day(-2)},
        today_index \in {NoIndex, 0},
        pr \in {<<None, None, None>>, <<(<<"p1">>), Work, None>>,
                <<None, None, H1>>}}

ReconcilePages ==
    {<<>>} \cup
    {<<Page(1, title, status, projects, date, U1)>> :
        title \in {<<"a">>, None},
        status \in {"Incomplete", NoStatus},
        projects \in {<<>>, <<1>>},
        date \in {None, Day(0), DayTime(0), Day(-1)}}

InitReconcile ==
    /\ things \in ReconcileThings
    /\ dbMtime = NoTime
    /\ now = Now0
    /\ cacheFile = NoFile
    /\ lastSyncFile = NoFile
    /\ notionPages \in ReconcilePages
    /\ notionProjects \in RunProjects
    /\ InitRunState

NextReconcile ==
    \/ StartLegacy
    \/ \E queryOK \in BOOLEAN : FetchProjects(queryOK)
    \/ \E queryOK \in BOOLEAN : FetchPages(queryOK)
    \/ \E outcome \in {"ok", "project_error", "task_error"} : SyncTask(outcome)

SpecReconcile == InitReconcile /\ [][NextReconcile]_vars

(***************************************************************************)
(* Project resolution over several to-dos of one run: project names that   *)
(* differ in case and in surrounding blanks, given directly or through a   *)
(* heading, against remote projects with and without a title.              *)
(***************************************************************************)
ProjectNames == {None, <<>>, Work, <<" ", "w", "k">>, <<"G">>}

ProjectThings ==
    {<<Task("to-do", U1, <<"a">>, "incomplete", Day(0), None,
            IF n1 = None THEN None ELSE <<"p1">>, n1, None, NoIndex),
       Task("to-do", U2, <<"b">>, "incomplete", Day(0), None,
            IF n2 = None THEN None ELSE <<"p2">>, n2,
            IF n2 = None THEN H1 ELSE None, NoIndex),
       TheHeading>> :
        n1 \in ProjectNames, n2 \in {None, <<"w", "k", " ">>, <<"g">>}}

ProjectRecords ==
    RunProjects \cup {<<[id |-> 1, name |-> None], [id |-> 2, name |-> <<"g", " ">>]>>}

InitProjects ==
    /\ things \in ProjectThings
    /\ dbMtime = NoTime
    /\ now = Now0
    /\ cacheFile = NoFile
    /\ lastSyncFile = NoFile
    /\ notionPages \in RunPages
    /\ notionProjects \in ProjectRecords
    /\ InitRunState

SpecProjects == InitProjects /\ [][NextReconcile]_vars

(***************************************************************************)
(* The persisted stores in every condition: the cache file and the         *)
(* last-sync file missing, corrupt, or parsed with and without their keys, *)
(* around the thresholds of the gate.                                      *)
(***************************************************************************)
StoreThings ==
    {<<Task("to-do", U1, <<"a">>, "incomplete", Day(0), None, <<"p1">>, Work,
            None, NoIndex),
       TheHeading>>,
     <<TheHeading>>}

StoreCacheFiles ==
    {NoFile,
     CorruptFile,
     [kind |-> "json", last_update |-> NoTime],
     [kind |-> "json", last_update |-> Now0 - 100,
      tasks |-> (U1 :> [last_synced |-> Now0 - 100])],
     [kind |-> "json", last_update |-> Now0 - 100,
      tasks |-> (U1 :> [modification_date |-> 1, last_synced |-> Now0 - 100])]}

StoreSyncFiles ==
    {NoFile, CorruptFile} \cup
    {[kind |-> "json", last_sync |-> last_sync, things_db_mod_time |-> mod_time] :
        last_sync \in {NoTime, Now0 - (CooldownSeconds - 1), Now0 - CooldownSeconds},
        mod_time \in {NoTime, Now0 - 100}}

StoreModTimes == {NoTime, Now0 - 101, Now0 - 100, Now0 - 99}

InitStores ==
    /\ things \in StoreThings
    /\ dbMtime \in StoreModTimes
    /\ now = Now0
    /\ cacheFile \in StoreCacheFiles
    /\ lastSyncFile \in StoreSyncFiles
    /\ notionPages = <<>>
    /\ notionProjects = <<>>
    /\ InitRunState

NextStores ==
    \/ \E force \in BOOLEAN, active \in BOOLEAN : StartOptimized(force, active)
    \/ \E queryOK \in BOOLEAN : FetchProjects(queryOK)
    \/ \E queryOK \in BOOLEAN : FetchPages(queryOK)
    \/ \E outcome \in {"ok", "project_error", "task_error"} : SyncTask(outcome)
    \/ SaveState
    \/ Tick
    \/ SaveLastSyncTime
    \/ ClearCache

SpecStores == InitStores /\ [][NextStores]_vars

(***************************************************************************)
(* Two overlapping runs over to-dos of one project, spelled in two ways,   *)
(* that the remote does not hold.                                          *)
(***************************************************************************)
OverlapThings ==
    {<<Task("to-do", U1, <<"a">>, "incomplete", Day(0), None, <<"p1">>, Work,
            None, NoIndex),
       Task("to-do", U2, <<"b">>, "incomplete", Day(0), None, <<"p1">>, n2,
            None, NoIndex)>> :
        n2 \in {<<" ", "w", "k">>, <<"G">>}}

InitOverlap ==
    /\ things \in OverlapThings
    /\ dbMtime = NoTime
    /\ now = Now0
    /\ cacheFile = NoFile
    /\ lastSyncFile = NoFile
    /\ notionPages = <<>>
    /\ notionProjects \in {<<>>, <<[id |-> 1, name |-> <<"g", " ">>]>>}
    /\ InitRunState

NextOverlap ==
    \/ \E force \in BOOLEAN, active \in BOOLEAN : StartOptimized(force, active)
    \/ StartLegacy
    \/ \E queryOK \in BOOLEAN : FetchProjects(queryOK)
    \/ \E queryOK \in BOOLEAN : FetchPages(queryOK)
    \/ \E outcome \in {"ok", "project_error", "task_error"} : SyncTask(outcome)
    \/ SaveState
    \/ Switch

SpecOverlap == InitOverlap /\ [][NextOverlap]_vars

(***************************************************************************)
(* Vocabulary of the properties.                                           *)
(***************************************************************************)
TaskCalls(op) == {i \in 1..Len(calls) : calls[i].db = "tasks" /\ calls[i].op = op}

PagesOf(uuid) == {i \in 1..Len(notionPages) : notionPages[i].uuid = uuid}

Uuids(tasks) == {tasks[i].uuid : i \in 1..Len(tasks)}

Todos(tasks) == {tasks[i] : i \in {j \in 1..Len(tasks) : tasks[j].type = "to-do"}}

LastOutcome == IF hist.outcomes = <<>> THEN "none"
               ELSE hist.outcomes[Len(hist.outcomes)]

\* the latest run has ended, and no other run has started
RunEnded == pc = "idle" /\ hist.runs = Len(hist.outcomes) /\ hist.runs > 0

\* the calendar-date component of a date string of the model
DatePortion(s) == IF s = None \/ s = <<>> THEN None ELSE <<s[1]>>

(***************************************************************************)
(* C1.  Idempotence: when the first pass over a task completed, a second   *)
(* pass over the unchanged task, against the remote as the first pass left *)
(* it, issues no update call.                                              *)
(***************************************************************************)
C1_SecondPassIssuesNoUpdate ==
    (hist.runs = 2 /\ hist.outcomes # <<>> /\ hist.outcomes[1] = "completed")
        => TaskCalls("update") = {}

\* the latest run passed the gate, loaded an empty cache when it is an
\* optimized run, and ended without an error
CleanRunEnded ==
    /\ RunEnded
    /\ hist.gate
    /\ LastOutcome \in {"completed", "nochanges"}
    /\ (mode = "optimized" => hist.cold)

(***************************************************************************)
(* C2.  After a run that passed the gate, loaded an empty cache and ended  *)
(* without a remote error, every to-do of the local source has a remote    *)
(* record with its uuid -- for the optimized and for the legacy run.       *)
(***************************************************************************)
C2_EveryTodoHasRecord ==
    CleanRunEnded => \A t \in Todos(hist.source) : PagesOf(t.uuid) # {}

(***************************************************************************)
(* C3.  Create-once: in one run, a task that reached its remote write and  *)
(* whose uuid is not in the run's remote index causes exactly one create   *)
(* call on the task collection and no update call, and the payload's (and  *)
(* the created record's) Things UUID is the task's uuid.                   *)
(***************************************************************************)
ReachedWrite(u) ==
    /\ u \in hist.attempted
    /\ ~(hist.failed.uuid = u /\ hist.failed.kind = "project")

C3_CreateOnce ==
    \A u \in hist.attempted :
        (ReachedWrite(u) /\ u \notin DOMAIN notion_uuid_map) =>
            /\ Cardinality({i \in TaskCalls("create") : calls[i].uuid = u}) = 1
            /\ {i \in TaskCalls("update") : calls[i].uuid = u} = {}
            /\ \A i \in TaskCalls("create") :
                   calls[i].uuid = u =>
                       /\ "Things UUID" \in DOMAIN calls[i].props
                       /\ calls[i].props["Things UUID"] = u
                       /\ calls[i].ok => Cardinality(PagesOf(u)) = 1

C3_Witness ==
    /\ hist.runs = 2
    /\ \E i \in TaskCalls("create") :
           /\ calls[i].ok
           /\ calls[i].uuid \notin DOMAIN notion_uuid_map
           /\ PagesOf(calls[i].uuid) # {}
    /\ TaskCalls("update") # {}

(***************************************************************************)
(* C4.  Safe resume: over runs that may stop part-way, the task collection *)
(* never holds two records with the same Things UUID, and no run creates a *)
(* record for a uuid that an earlier run created.                          *)
(***************************************************************************)
C4_NoDuplicateRecords ==
    /\ \A i, j \in 1..Len(notionPages) :
           (Truthy(notionPages[i].uuid) /\ notionPages[i].uuid = notionPages[j].uuid)
               => i = j
    /\ \A i \in TaskCalls("create") : calls[i].uuid \notin hist.createdBefore

C4_Witness ==
    /\ hist.runs = 2
    /\ hist.outcomes[1] = "aborted"
    /\ last.run = 2
    /\ last.task.uuid \in hist.createdBefore
    /\ last.page # NoPage
    /\ last.r.op = "update"

(***************************************************************************)
(* C5.  A task whose remote write failed in a run is not selected by the   *)
(* next run, while its modification timestamp is unchanged.                *)
(***************************************************************************)
C5_FailedTaskNotRetried ==
    (/\ mode = "optimized"
     /\ hist.gate
     /\ hist.prevFailed # NoFail
     /\ hist.prevFailed.mode = "optimized"
     /\ hist.prevFailed.kind = "task"
     /\ \E t \in Todos(hist.source) :
            /\ t.uuid = hist.prevFailed.uuid
            /\ t.modification_date = hist.prevFailed.modification_date)
        => hist.prevFailed.uuid \notin Uuids(tasks_to_sync)

(***************************************************************************)
(* C6.  A failed create or update of one task does not stop the run: when  *)
(* the run has ended, every task after the failing one was reconciled.     *)
(***************************************************************************)
C6_RunContinuesAfterFailure ==
    (RunEnded /\ hist.failed # NoFail /\ hist.failed.kind = "task")
        => \A j \in (hist.failed.at + 1)..Len(tasks_to_sync) :
               tasks_to_sync[j].uuid \in hist.attempted

\* the cache file has no entry for the to-do, or one with another
\* modification timestamp
CacheMiss(file, t) ==
    \/ file.kind # "json"
    \/ t.uuid \notin DOMAIN file.tasks
    \/ file.tasks[t.uuid].modification_date # t.modification_date

(***************************************************************************)
(* C7.  Cache filter: in an optimized run that passed the gate, a to-do of *)
(* the local source is selected for reconciliation exactly when the cache  *)
(* file has no entry for its uuid or an entry with another modification    *)
(* timestamp -- whether the run is forced or not.                          *)
(***************************************************************************)
C7_CacheFilter ==
    (mode = "optimized" /\ hist.runs > 0 /\ hist.gate) =>
        \A t \in Todos(hist.source) :
            (t.uuid \in Uuids(tasks_to_sync)) <=> CacheMiss(hist.fileAtStart, t)

(***************************************************************************)
(* C8.  Date suppression: an update of a record whose date has the same    *)
(* date-portion as the normalized local date carries no Date property.     *)
(***************************************************************************)
C8_DateSuppressed ==
    (/\ last.run > 0
     /\ last.page # NoPage
     /\ Truthy(last.page.date)
     /\ Truthy(last.r.date_value)
     /\ DatePortion(last.page.date) = DatePortion(last.r.date_value))
        => "Date" \notin DOMAIN last.r.props

C8_Witness ==
    /\ last.run > 0
    /\ last.page # NoPage
    /\ last.r.op = "update"
    /\ last.page.date = DayTime(0)
    /\ last.r.date_value = Day(0)
    /\ TaskCalls("update") # {}
    /\ \A i \in TaskCalls("update") : "Date" \notin DOMAIN calls[i].props

(***************************************************************************)
(* C9.  Date clear: a task without a normalized date, reconciled against a *)
(* record that holds a date, issues an update whose Date property is the   *)
(* explicit clear value.                                                   *)
(***************************************************************************)
C9_DateCleared ==
    (/\ last.run > 0
     /\ last.run = hist.runs
     /\ last.page # NoPage
     /\ Truthy(last.page.date)
     /\ last.r.date_value = None)
        => \E i \in TaskCalls("update") :
               /\ calls[i].uuid = last.task.uuid
               /\ calls[i].page_id = last.page.id
               /\ "Date" \in DOMAIN calls[i].props
               /\ calls[i].props["Date"] = None

C9_Witness ==
    /\ last.run > 0
    /\ last.page # NoPage
    /\ last.page.title = last.task.title
    /\ last.page.status = "Incomplete"
    /\ last.task.status = "incomplete"
    /\ last.page.projects = <<>>
    /\ last.r.project_id = NoId
    /\ Truthy(last.page.date)
    /\ last.r.date_value = None
    /\ \E i \in 1..Len(notionPages) :
           notionPages[i].id = last.page.id /\ notionPages[i].date = None

(***************************************************************************)
(* C10.  Date normalizer: the candidate is start_date when it is set and   *)
(* not "None", else the deadline, else nothing; the result is today's date *)
(* when the task is incomplete, in the Today list and the candidate's date *)
(* is before today, and the candidate itself in every other case.          *)
(***************************************************************************)
Present(v) == v # None /\ v # <<>> /\ v # <<"None">>

Candidate(t) ==
    IF Present(t.start_date) THEN t.start_date
    ELSE IF Present(t.deadline) THEN t.deadline
    ELSE None

BeforeToday(s) ==
    /\ s # None
    /\ IsDayTok(s[1])
    /\ DayNum(s[1]) < now \div DaySeconds

Shifted(t) ==
    /\ t.status = "incomplete"
    /\ t.today_index # NoIndex
    /\ BeforeToday(Candidate(t))

C10_DisplayDate ==
    last.run > 0 =>
        last.r.date_value = IF Shifted(last.task)
                            THEN <<DayTok(now \div DaySeconds)>>
                            ELSE Candidate(last.task)

C10_Witness ==
    /\ last.run > 0
    /\ last.task.status = "incomplete"
    /\ last.task.today_index # NoIndex
    /\ last.task.start_date = <<"None">>
    /\ last.task.deadline = Day(-2)
    /\ last.r.date_value = Day(0)

(***************************************************************************)
(* C11.  Project resolution within a run: a task without a project name    *)
(* makes no call on the project collection; a name that matches a project  *)
(* of the index after trimming and lower-casing resolves to that project   *)
(* without a create; and one run creates at most one project for each      *)
(* trimmed, lower-cased name.                                              *)
(***************************************************************************)
Norm(name) == lower(strip(name))

ProjectCreates == {i \in 1..Len(calls) : calls[i].db = "projects"}

RecordsNamed(name) ==
    {k \in 1..Len(notionProjects) :
        /\ notionProjects[k].name # None
        /\ Norm(notionProjects[k].name) = Norm(name)}

C11_ProjectResolvedOnce ==
    /\ \A i, j \in ProjectCreates :
           Norm(calls[i].props["Name"]) = Norm(calls[j].props["Name"]) => i = j
    /\ \A i \in ProjectCreates : Truthy(calls[i].props["Name"])
    /\ (last.run > 0 /\ last.run = hist.runs) =>
           IF Truthy(last.r.project_name)
           THEN /\ \E k \in RecordsNamed(last.r.project_name) :
                       notionProjects[k].id = last.r.project_id
                /\ last.r.create =>
                       Cardinality(RecordsNamed(last.r.project_name)) = 1
           ELSE /\ ~last.r.create
                /\ last.r.project_id = NoId
                /\ \A i \in ProjectCreates : calls[i].uuid # last.task.uuid

\* the second to-do resolves, under another spelling, to the project that the
\* run created for the first
C11_Witness ==
    /\ last.run = 1
    /\ last.task.uuid = U2
    /\ last.r.project_name = <<"w", "k", " ">>
    /\ ~last.r.create
    /\ Cardinality(ProjectCreates) = 1
    /\ \A i \in ProjectCreates :
           /\ calls[i].props["Name"] = Work
           /\ calls[i].uuid = U1
    /\ Cardinality(RecordsNamed(Work)) = 1

(***************************************************************************)
(* C12.  Sync gate: a run proceeds exactly when it is forced, or when the  *)
(* focus signal is true, no last sync is recorded or at least 30 seconds   *)
(* have passed since it, and the modification time of the source is        *)
(* unknown, not recorded, or strictly newer than the recorded one.         *)
(***************************************************************************)
RecordedLastSync ==
    IF lastSyncFile.kind = "json" THEN lastSyncFile.last_sync ELSE NoTime

RecordedModTime ==
    IF lastSyncFile.kind = "json" THEN lastSyncFile.things_db_mod_time ELSE NoTime

CooldownOver == RecordedLastSync = NoTime \/ now - RecordedLastSync >= 30

SourceNewer ==
    \/ dbMtime = NoTime
    \/ RecordedModTime = NoTime
    \/ dbMtime > RecordedModTime

GateExpected(force, active) == force \/ (active /\ CooldownOver /\ SourceNewer)

\* an optimized run is between its gate and its end
PastGate == mode = "optimized" /\ pc \in {"projects", "pages", "sync", "save"}

\* in every state the gate decides as stated, and a run past it has passed it
C12_GateAsStated ==
    /\ \A force \in BOOLEAN, active \in BOOLEAN :
           Gate(force, active) <=> GateExpected(force, active)
    /\ ~Gate(FALSE, FALSE)
    /\ PastGate => hist.gate

\* a step that starts an optimized run: it passes the gate only when the
\* stores it reads let a run with the focus signal proceed, and it goes on to
\* the remote only when it passed the gate
C12_StartAsStated ==
    (pc = "idle" /\ mode' = "optimized" /\ hist'.runs = hist.runs + 1) =>
        /\ hist'.gate => GateExpected(hist'.force, TRUE)
        /\ ~GateExpected(hist'.force, TRUE) => pc' = "idle"

C12_GateDecision == [](C12_GateAsStated) /\ [][C12_StartAsStated]_vars

\* an unforced run has passed the gate exactly 30 seconds after the recorded
\* sync, the source newer than recorded
C12_Witness ==
    /\ PastGate
    /\ ~hist.force
    /\ RecordedLastSync # NoTime
    /\ now - RecordedLastSync = 30
    /\ RecordedModTime # NoTime
    /\ dbMtime = RecordedModTime + 1

(***************************************************************************)
(* C13.  The stores are never fatal: whatever the cache file and the       *)
(* last-sync file hold, no run raises; a cache file that is missing,       *)
(* corrupt or without its keys gives a cold start (every to-do the run     *)
(* considers is selected), and a last-sync file in that condition lets the *)
(* gate pass when the focus signal is true.                                *)
(***************************************************************************)
CacheFileSound(file) ==
    /\ file.kind = "json"
    /\ "tasks" \in DOMAIN file
    /\ \A u \in DOMAIN file.tasks : "modification_date" \in DOMAIN file.tasks[u]

C13_StoresNeverFatal ==
    /\ \A i \in 1..Len(hist.outcomes) : hist.outcomes[i] # "raised"
    /\ (mode = "optimized" /\ hist.runs > 0 /\ hist.gate
            /\ ~CacheFileSound(hist.fileAtStart))
           => Uuids(tasks_to_sync) = Uuids(hist.candidates)
    /\ RecordedLastSync = NoTime => should_sync_based_on_focus(FALSE, TRUE)
    /\ RecordedModTime = NoTime => has_things_data_changed

(***************************************************************************)
(* C14.  Update iff diff: a task with a remote record issues exactly one   *)
(* update call, on that record, when the title, the mapped status, the     *)
(* project (resolved id against the first reference of the relation) or    *)
(* the date-portion differs, and no call on the task collection otherwise. *)
(***************************************************************************)
FirstReference(page) == IF page.projects = <<>> THEN NoId ELSE page.projects[1]

FieldsDiffer(task, page, project_id, date_value) ==
    \/ task.title # (IF page.title = None THEN <<>> ELSE page.title)
    \/ things_status_to_notion_status(task.status) # page.status
    \/ project_id # FirstReference(page)
    \/ DatePortion(date_value) # DatePortion(page.date)

CallsFor(uuid) == {i \in 1..Len(calls) : calls[i].db = "tasks" /\ calls[i].uuid = uuid}

C14_UpdateIffDiffer ==
    (last.run > 0 /\ last.run = hist.runs /\ last.page # NoPage) =>
        IF FieldsDiffer(last.task, last.page, last.r.project_id, last.r.date_value)
        THEN /\ Cardinality(CallsFor(last.task.uuid)) = 1
             /\ \A i \in CallsFor(last.task.uuid) :
                    calls[i].op = "update" /\ calls[i].page_id = last.page.id
        ELSE CallsFor(last.task.uuid) = {}

\* only the project differs, and one update is issued
C14_Witness ==
    /\ last.run > 0
    /\ last.run = hist.runs
    /\ last.page # NoPage
    /\ last.task.title = last.page.title
    /\ things_status_to_notion_status(last.task.status) = last.page.status
    /\ Truthy(last.r.date_value)
    /\ last.r.date_value # last.page.date
    /\ DatePortion(last.r.date_value) = DatePortion(last.page.date)
    /\ last.r.project_id # NoId
    /\ last.page.projects = <<>>
    /\ Cardinality(CallsFor(last.task.uuid)) = 1

(***************************************************************************)
(* C15.  In every run the heading lookup has an entry for every heading    *)
(* the local source returns, and a to-do that names a heading and no       *)
(* project resolves to the project title of that heading.                  *)
(***************************************************************************)
Headings(tasks) ==
    {tasks[i] : i \in {j \in 1..Len(tasks) : tasks[j].type = "heading"}}

C15_HeadingLookupComplete ==
    /\ pc = "sync" =>
           \A h \in Headings(hist.source) : h.uuid \in DOMAIN heading_lookup
    /\ (last.run > 0 /\ last.run = hist.runs /\ ~Truthy(last.task.project)) =>
           \A h \in Headings(hist.source) :
               h.uuid = last.task.heading => last.r.project_name = h.project_title

(***************************************************************************)
(* C16.  A to-do without start date and deadline, its modification         *)
(* timestamp not the cached one, has no date on its remote record after    *)
(* a run that passed the gate and ended without an error -- for the        *)
(* optimized and for the legacy run.                                       *)
(***************************************************************************)
Undated(t) == ~Present(t.start_date) /\ ~Present(t.deadline)

C16_DateLossPropagates ==
    (/\ RunEnded
     /\ hist.gate
     /\ LastOutcome \in {"completed", "nochanges"})
        => \A t \in Todos(hist.source) :
               (/\ Undated(t)
                /\ mode = "optimized" => CacheMiss(hist.fileAtStart, t))
                   => \A i \in PagesOf(t.uuid) : notionPages[i].date = None

(***************************************************************************)
(* C17.  The cache file is written only by the step that ends an optimized *)
(* run after its last selected task: a run that is stopped by the gate,    *)
(* finds nothing to sync or aborts, and a legacy run, leave the file as    *)
(* the run found it.                                                       *)
(***************************************************************************)
C17_CacheWrittenAtEnd ==
    hist.runs > 0 =>
        IF mode = "optimized" /\ RunEnded /\ LastOutcome = "completed"
        THEN /\ cacheFile.kind = "json"
             /\ cacheFile.tasks = cache.tasks
             /\ Uuids(tasks_to_sync) \subseteq hist.attempted
        ELSE cacheFile = hist.fileAtStart

\* an optimized run aborted at its second task: the first is on the remote,
\* the in-memory cache holds both, the file is as it was
C17_Witness ==
    /\ mode = "optimized"
    /\ RunEnded
    /\ LastOutcome = "aborted"
    /\ hist.failed # NoFail
    /\ hist.failed.at = 2
    /\ \E i \in 1..Len(calls) : calls[i].db = "tasks" /\ calls[i].ok
    /\ DOMAIN cache.tasks = {U1, U2}
    /\ cacheFile = hist.fileAtStart
    /\ cacheFile = NoFile

(***************************************************************************)
(* C18.  Unmatched records are never touched: the index of a run holds     *)
(* exactly the records, of all pages of the query, that carry a non-empty  *)
(* Things UUID; an update targets the indexed record of the task's own     *)
(* uuid; and no step removes a record or changes one whose Things UUID is  *)
(* absent or is not the uuid of the task being reconciled.                 *)
(***************************************************************************)
CreatedInRun(uuid) == \E i \in TaskCalls("create") : calls[i].ok /\ calls[i].uuid = uuid

C18_IndexExact ==
    pc = "sync" =>
        /\ \A u \in DOMAIN notion_uuid_map :
               Truthy(u) /\ notion_uuid_map[u].uuid = u
        /\ \A i \in 1..Len(notionPages) :
               (Truthy(notionPages[i].uuid) /\ ~CreatedInRun(notionPages[i].uuid))
                   => /\ notionPages[i].uuid \in DOMAIN notion_uuid_map
                      /\ notion_uuid_map[notionPages[i].uuid].id = notionPages[i].id

C18_UpdateTargetsOwnRecord ==
    /\ \A i \in TaskCalls("update") :
           /\ calls[i].uuid \in DOMAIN notion_uuid_map
           /\ notion_uuid_map[calls[i].uuid].id = calls[i].page_id
    /\ (last.run > 0 /\ last.r.op = "update") =>
           Truthy(last.page.uuid) /\ last.page.uuid = last.task.uuid

C18_RecordsKept ==
    \A i \in 1..Len(notionPages) :
        /\ i <= Len(notionPages')
        /\ notionPages'[i].id = notionPages[i].id
        /\ notionPages'[i] # notionPages[i] =>
               /\ pc = "sync"
               /\ Truthy(notionPages[i].uuid)
               /\ notionPages[i].uuid = tasks_to_sync[idx].uuid

C18_UnmatchedUntouched ==
    /\ [](C18_IndexExact /\ C18_UpdateTargetsOwnRecord)
    /\ [][C18_RecordsKept]_vars

\* the record of u1 was updated next to a record made by hand, which is as
\* it was
C18_Witness ==
    /\ last.run > 0
    /\ last.r.op = "update"
    /\ last.page.id = 2
    /\ \E i \in TaskCalls("update") : calls[i].ok /\ calls[i].page_id = 2
    /\ Len(notionPages) >= 2
    /\ notionPages[1] = Page(1, <<"x">>, NoStatus, <<>>, None, None)
    /\ notionPages[2] # last.page

(***************************************************************************)
(* C19.  A start date or deadline that does not parse counts as absent:    *)
(* the normalized date of the task is none and the payload carries the     *)
(* clear value for Date.                                                   *)
(***************************************************************************)
Malformed(v) == Present(v) /\ parse_things_date(v) = NoTime

C19_MalformedDateAbsent ==
    (last.run > 0 /\ Malformed(Candidate(last.task))) =>
        /\ last.r.date_value = None
        /\ "Date" \in DOMAIN last.r.props
        /\ last.r.props["Date"] = None

(***************************************************************************)
(* C20.  Overlapping runs duplicate a project: when each of two runs has   *)
(* created a project for the same trimmed, lower-cased name, the remote    *)
(* holds two project records with that name -- and that state is reached   *)
(* when the second run fetches its index before the first one creates.     *)
(***************************************************************************)
CreatedProject(run_calls, name) ==
    \E i \in 1..Len(run_calls) :
        /\ run_calls[i].db = "projects"
        /\ run_calls[i].ok
        /\ Norm(run_calls[i].props["Name"]) = Norm(name)

C20_OverlapDuplicatesProject ==
    \A name \in {Work, <<"G">>} :
        (CreatedProject(calls, name) /\ CreatedProject(other.calls, name))
            => Cardinality(RecordsNamed(name)) >= 2

\* both runs have completed, and the remote holds two projects named Wk
C20_Witness ==
    /\ pc = "idle"
    /\ other.pc = "idle"
    /\ hist.outcomes = <<"completed", "completed">>
    /\ CreatedProject(calls, Work)
    /\ CreatedProject(other.calls, Work)
    /\ Cardinality(RecordsNamed(Work)) = 2
    /\ \A k \in RecordsNamed(Work) : notionProjects[k].name = Work

====
